---- MODULE Spec2Model ----
(***************************************************************************)
(* Model of the transaction manager (pkg/concurrency/transaction_manager)  *)
(* and of the recovery manager (package recovery) of dinodb.               *)
(*                                                                         *)
(* Every client is one sequential caller: it has at most one call in       *)
(* flight, and calls of different clients interleave at the points where   *)
(* the code takes or releases a mutex.                                     *)
(***************************************************************************)
EXTENDS Integers, Sequences, FiniteSets, TLC

\* ------------------------------------------------------------------ bounds
NumClients == 2
NumResources == 2
\* Transactions begun in a run (each successful Begin allocates a new object).
MaxBegins == 2

\* Records the log file may hold, and entries an undo stack may hold.
MaxLog == 2
NumKeys == 1
NumValues == 1

\* Clients of the runs in which the resource lock manager may fail.
NumFaultClients == 2

\* Records of a log file given to readLogs.
MaxFile == 3

\* Keys and values of the table that redo replays into.
NumRedoKeys == 2
NumRedoValues == 2

Resources == 1..NumResources
Keys == 1..NumKeys
Values == 1..NumValues
RedoKeys == 1..NumRedoKeys
RedoValues == 1..NumRedoValues
\* The absence of a key in the table.
Absent == 0

\* LockType: R_LOCK, W_LOCK; "none" is the absence of a key in lockedResources.
R_LOCK == "R"
W_LOCK == "W"
LockTypes == {R_LOCK, W_LOCK}
NoLock == "none"

\* A *Transaction pointer: the number of the allocation that made the object.
TxIds == 1..MaxBegins
NoTx == 0
NoCall == [op |-> "none", res |-> 0, lt |-> NoLock]

VARIABLES
    transactions,     \* tm.transactions: client id -> *Transaction (NoTx: no entry)
    allocated,        \* the Transaction objects allocated so far
    lockedResources,  \* the lockedResources map of each client's latest Transaction
    edges,            \* tm.waitsForGraph.edges: pairs <<from, to>> of *Transaction
    rlmReaders,       \* resourceLockManager: read holds on each resource's mutex
    rlmWriter,        \* resourceLockManager: whether the resource's mutex is write held
    regReaders,       \* tm.mtx: read holds
    regWriter,        \* tm.mtx: the client that called tm.mtx.Lock() (0: none)
    pc,               \* per client, the position of its call
    call,             \* per client, the call in flight (or the last one made)
    ret,              \* per client, what the last call returned ("none": in flight)
    conflicts,        \* per client, the conflictingTransactions not yet given an edge
    scanTodo,         \* per client, the registry keys the conflict scan has not visited
    relTodo           \* per client, the resources Commit's loop has not visited

tmVars == <<transactions, allocated, lockedResources, edges, rlmReaders, rlmWriter,
            regReaders, regWriter, pc, call, ret, conflicts, scanTodo, relTodo>>

VARIABLES
    wal,              \* the records of rm.logFile, in file order
    txStack,          \* rm.txStack: client id -> stack of editLog (<<>>: no key)
    flushErr,         \* what flushLog returned in the last call of the recovery manager
    rmCall,           \* the last call of the recovery manager
    rmRet,            \* what that call returned
    snapshotLog       \* the log file inside the recovery folder written by delta

rmVars == <<wal, txStack, flushErr, rmCall, rmRet, snapshotLog>>

VARIABLES
    rows,             \* the table that redo writes to: key -> value (Absent: no entry)
    redone,           \* the log given to the last redo call
    redoErr,          \* what that call returned
    logs,             \* the logs returned by the last readLogs call
    checkpointIndex   \* the checkpointIndex returned by that call (-1: no call yet)

replayVars == <<rows, redone, redoErr, logs, checkpointIndex>>

vars == <<tmVars, rmVars, replayVars>>

\* The clients of a run: the keys of every per-client variable.
Clients == DOMAIN pc

\* ------------------------------------------------------- waits-for graph
\* Edges of E composed with themselves, added to E.
Compose(E) ==
    E \cup {<<p[1][1], p[2][2]>> : p \in {q \in E \X E : q[1][2] = q[2][1]}}

RECURSIVE Closure(_)
Closure(E) == IF Compose(E) = E THEN E ELSE Closure(Compose(E))

\* WaitsForGraph.DetectCycle over the whole edge set.
DetectCycle(E) == \E e \in Closure(E) : e[1] = e[2]

\* WaitsForGraph.AddEdge
AddEdge(E, from, to) == E \cup {<<from, to>>}

\* Lines 103-107: every edge leaving tx is removed.
RemoveOutgoing(E, tx) == {e \in E : e[1] # tx}

\* ------------------------------------------------- resource lock manager
\* ResourceLockManager.Lock can return: the resource's RWMutex grants it.
RlmCanLock(r, lt) ==
    IF lt = W_LOCK THEN ~rlmWriter[r] /\ rlmReaders[r] = 0
    ELSE ~rlmWriter[r]

\* ResourceLockManager.Unlock fails: not locked, or locked with the other type.
RlmUnlockFails(r, lt) ==
    IF lt = W_LOCK THEN ~rlmWriter[r] ELSE rlmReaders[r] = 0

RlmReadersAfterLock(r, lt) ==
    IF lt = R_LOCK THEN [rlmReaders EXCEPT ![r] = @ + 1] ELSE rlmReaders

RlmWriterAfterLock(r, lt) ==
    IF lt = W_LOCK THEN [rlmWriter EXCEPT ![r] = TRUE] ELSE rlmWriter

RlmReadersAfterUnlock(rd, r, lt) ==
    IF lt = R_LOCK /\ rd[r] > 0 THEN [rd EXCEPT ![r] = @ - 1] ELSE rd

RlmWriterAfterUnlock(wr, r, lt) ==
    IF lt = W_LOCK THEN [wr EXCEPT ![r] = FALSE] ELSE wr

\* --------------------------------------------------------------- helpers
\* conflictingTransactions, line 176: a stored lock on r conflicts.
Conflicts(storedType, lType) ==
    storedType # NoLock /\ (storedType = W_LOCK \/ lType = W_LOCK)

\* HeldOutcome with the upgrade test of line 82 lost: every held request succeeds.
HeldOutcome_Upgrade(existing, lType) == "ok"

\* Lines 79 and 82: the outcome of a request for a resource already held.
HeldOutcome(existing, lType) ==
    IF existing = lType \/ (existing = W_LOCK /\ lType = R_LOCK) THEN "ok"
    ELSE "UpgradeDenied"

Return(c, result) ==
    /\ pc' = [pc EXCEPT ![c] = "idle"]
    /\ ret' = [ret EXCEPT ![c] = result]

Start(c, op, r, lt, at) ==
    /\ pc[c] = "idle"
    /\ pc' = [pc EXCEPT ![c] = at]
    /\ call' = [call EXCEPT ![c] = [op |-> op, res |-> r, lt |-> lt]]
    /\ ret' = [ret EXCEPT ![c] = "none"]

\* NewTransactionManager: an empty registry and graph, serving the clients CS.
InitTM(CS) ==
    /\ pc = [c \in CS |-> "idle"]
    /\ transactions = [c \in CS |-> NoTx]
    /\ allocated = 0
    /\ lockedResources = [c \in CS |-> [r \in Resources |-> NoLock]]
    /\ edges = {}
    /\ rlmReaders = [r \in Resources |-> 0]
    /\ rlmWriter = [r \in Resources |-> FALSE]
    /\ regReaders = 0
    /\ regWriter = 0
    /\ call = [c \in CS |-> NoCall]
    /\ ret = [c \in CS |-> "none"]
    /\ conflicts = [c \in CS |-> {}]
    /\ scanTodo = [c \in CS |-> {}]
    /\ relTodo = [c \in CS |-> {}]

\* NewRecoveryManager: an empty log file and no undo stack.
InitRM(CS) ==
    /\ wal = <<>>
    /\ txStack = [c \in CS |-> <<>>]
    /\ flushErr = "nil"
    /\ rmCall = [op |-> "none", id |-> 0]
    /\ rmRet = "none"
    /\ snapshotLog = <<>>

NoLog == [type |-> "none"]

\* A database whose table is empty, before any redo call.
InitReplay ==
    /\ rows = [k \in RedoKeys |-> Absent]
    /\ redone = NoLog
    /\ redoErr = "nil"
    /\ logs = <<>>
    /\ checkpointIndex = -1

Init == InitTM(1..NumClients) /\ InitRM(1..NumClients) /\ InitReplay

\* ------------------------------------------------------------------ Begin
\* Line 48: tm.mtx.Lock() is called; the writer waits for the readers to leave.
BeginCall(c) ==
    /\ regWriter = 0
    /\ transactions[c] # NoTx \/ allocated < MaxBegins
    /\ Start(c, "Begin", 0, NoLock, "B_wait")
    /\ regWriter' = c
    /\ UNCHANGED <<transactions, allocated, lockedResources, edges, rlmReaders, rlmWriter,
                   regReaders, conflicts, scanTodo, relTodo>>
    /\ UNCHANGED <<rmVars, replayVars>>

\* BeginBody without the found test of lines 50-53: the entry is overwritten.
BeginBody_Overwrite(c) ==
    /\ pc[c] = "B_wait"
    /\ regReaders = 0
    /\ allocated' = IF allocated < MaxBegins THEN allocated + 1 ELSE allocated
    /\ transactions' = [transactions EXCEPT ![c] = allocated']
    /\ lockedResources' = [lockedResources EXCEPT ![c] = [r \in Resources |-> NoLock]]
    /\ Return(c, "ok")
    /\ regWriter' = 0
    /\ UNCHANGED <<edges, rlmReaders, rlmWriter, regReaders, call, conflicts,
                   scanTodo, relTodo>>
    /\ UNCHANGED <<rmVars, replayVars>>

\* Lines 49-56, with the write lock held.
BeginBody(c) ==
    /\ pc[c] = "B_wait"
    /\ regReaders = 0
    /\ IF transactions[c] # NoTx
       THEN /\ Return(c, "AlreadyExists")
            /\ UNCHANGED <<transactions, allocated, lockedResources>>
       ELSE /\ allocated' = allocated + 1
            /\ transactions' = [transactions EXCEPT ![c] = allocated + 1]
            /\ lockedResources' =
                   [lockedResources EXCEPT ![c] = [r \in Resources |-> NoLock]]
            /\ Return(c, "ok")
    /\ regWriter' = 0
    /\ UNCHANGED <<edges, rlmReaders, rlmWriter, regReaders, call, conflicts,
                   scanTodo, relTodo>>
    /\ UNCHANGED <<rmVars, replayVars>>

\* ------------------------------------------------------------------- Lock
\* Line 69: tm.mtx.RLock(), which waits while a writer holds or awaits tm.mtx.
LockCall(c, r, lt) ==
    /\ regWriter = 0
    /\ Start(c, "Lock", r, lt, "L_rlock")
    /\ regReaders' = regReaders + 1
    /\ UNCHANGED <<transactions, allocated, lockedResources, edges, rlmReaders, rlmWriter,
                   regWriter, conflicts, scanTodo, relTodo>>
    /\ UNCHANGED <<rmVars, replayVars>>

\* Lines 70-76: GetTransaction takes tm.mtx.RLock() again, reads the registry and
\* releases; then the outer read hold is released.
LockLookup(c) ==
    /\ pc[c] = "L_rlock"
    /\ regWriter = 0
    /\ regReaders' = regReaders - 1
    /\ IF transactions[c] = NoTx
       THEN Return(c, "NotFound")
       ELSE /\ pc' = [pc EXCEPT ![c] = "L_check"]
            /\ UNCHANGED ret
    /\ UNCHANGED <<transactions, allocated, lockedResources, edges, rlmReaders, rlmWriter,
                   regWriter, call, conflicts, scanTodo, relTodo>>
    /\ UNCHANGED <<rmVars, replayVars>>

\* Lines 77-87: the request for a resource the transaction already holds.
LockCheck(c) ==
    /\ pc[c] = "L_check"
    /\ LET existing == lockedResources[c][call[c].res] IN
       IF existing # NoLock
       THEN /\ Return(c, HeldOutcome(existing, call[c].lt))
            /\ UNCHANGED scanTodo
       ELSE /\ pc' = [pc EXCEPT ![c] = "L_scan"]
            /\ scanTodo' = [scanTodo EXCEPT ![c] = Clients]
            /\ UNCHANGED ret
    /\ UNCHANGED <<transactions, allocated, lockedResources, edges, rlmReaders, rlmWriter,
                   regReaders, regWriter, call, conflicts, relTodo>>
    /\ UNCHANGED <<rmVars, replayVars>>

\* Lines 173-182: one iteration of the range over tm.transactions, made without
\* tm.mtx: the entry of x is visited if it is in the registry at that moment.
LockScan(c, x) ==
    /\ pc[c] = "L_scan"
    /\ x \in scanTodo[c]
    /\ scanTodo' = [scanTodo EXCEPT ![c] = @ \ {x}]
    /\ conflicts' = [conflicts EXCEPT ![c] =
           IF /\ transactions[x] # NoTx
              /\ Conflicts(lockedResources[x][call[c].res], call[c].lt)
           THEN @ \cup {transactions[x]} ELSE @]
    /\ pc' = [pc EXCEPT ![c] = IF scanTodo[c] = {x} THEN "L_add" ELSE "L_scan"]
    /\ UNCHANGED <<transactions, allocated, lockedResources, edges, rlmReaders, rlmWriter,
                   regReaders, regWriter, call, ret, relTodo>>
    /\ UNCHANGED <<rmVars, replayVars>>

\* Lines 88-90: one AddEdge(tx, conflict); "L_added" is the loop after at least
\* one iteration.
LockAddEdge(c, t) ==
    /\ pc[c] \in {"L_add", "L_added"}
    /\ t \in conflicts[c]
    /\ edges' = AddEdge(edges, transactions[c], t)
    /\ conflicts' = [conflicts EXCEPT ![c] = @ \ {t}]
    /\ pc' = [pc EXCEPT ![c] = "L_added"]
    /\ UNCHANGED <<transactions, allocated, lockedResources, rlmReaders, rlmWriter,
                   regReaders, regWriter, call, ret, scanTodo, relTodo>>
    /\ UNCHANGED <<rmVars, replayVars>>

\* Lines 91-93: the cycle check that follows the last AddEdge.
LockDetect(c) ==
    /\ pc[c] \in {"L_add", "L_added"}
    /\ conflicts[c] = {}
    /\ IF DetectCycle(edges)
       THEN Return(c, "Deadlock")
       ELSE /\ pc' = [pc EXCEPT ![c] = "L_acquire"]
            /\ UNCHANGED ret
    /\ UNCHANGED <<transactions, allocated, lockedResources, edges, rlmReaders, rlmWriter,
                   regReaders, regWriter, call, conflicts, scanTodo, relTodo>>
    /\ UNCHANGED <<rmVars, replayVars>>

\* LockAcquire without the call of line 94: the lock is recorded without a grant.
LockAcquire_NoRlm(c) ==
    /\ pc[c] = "L_acquire"
    /\ pc' = [pc EXCEPT ![c] = "L_record"]
    /\ UNCHANGED <<transactions, allocated, lockedResources, edges, rlmReaders,
                   rlmWriter, regReaders, regWriter, call, ret, conflicts, scanTodo,
                   relTodo>>
    /\ UNCHANGED <<rmVars, replayVars>>

\* Line 94: resourceLockManager.Lock returns once the resource's mutex is granted.
LockAcquire(c) ==
    /\ pc[c] = "L_acquire"
    /\ RlmCanLock(call[c].res, call[c].lt)
    /\ rlmReaders' = RlmReadersAfterLock(call[c].res, call[c].lt)
    /\ rlmWriter' = RlmWriterAfterLock(call[c].res, call[c].lt)
    /\ pc' = [pc EXCEPT ![c] = "L_record"]
    /\ UNCHANGED <<transactions, allocated, lockedResources, edges, regReaders, regWriter,
                   call, ret, conflicts, scanTodo, relTodo>>
    /\ UNCHANGED <<rmVars, replayVars>>

\* Lines 100-109: record the lock and drop the transaction's outgoing edges.
LockRecord(c) ==
    /\ pc[c] = "L_record"
    /\ lockedResources' = [lockedResources EXCEPT ![c][call[c].res] = call[c].lt]
    /\ edges' = RemoveOutgoing(edges, transactions[c])
    /\ Return(c, "ok")
    /\ UNCHANGED <<transactions, allocated, rlmReaders, rlmWriter, regReaders, regWriter,
                   call, conflicts, scanTodo, relTodo>>
    /\ UNCHANGED <<rmVars, replayVars>>

\* ----------------------------------------------------------------- Unlock
\* Line 117: tm.mtx.RLock().
UnlockCall(c, r, lt) ==
    /\ regWriter = 0
    /\ Start(c, "Unlock", r, lt, "U_rlock")
    /\ regReaders' = regReaders + 1
    /\ UNCHANGED <<transactions, allocated, lockedResources, edges, rlmReaders, rlmWriter,
                   regWriter, conflicts, scanTodo, relTodo>>
    /\ UNCHANGED <<rmVars, replayVars>>

\* Lines 118-124.
UnlockLookup(c) ==
    /\ pc[c] = "U_rlock"
    /\ regWriter = 0
    /\ regReaders' = regReaders - 1
    /\ IF transactions[c] = NoTx
       THEN Return(c, "NotFound")
       ELSE /\ pc' = [pc EXCEPT ![c] = "U_body"]
            /\ UNCHANGED ret
    /\ UNCHANGED <<transactions, allocated, lockedResources, edges, rlmReaders, rlmWriter,
                   regWriter, call, conflicts, scanTodo, relTodo>>
    /\ UNCHANGED <<rmVars, replayVars>>

\* UnlockBody without the type test of lines 128-131.
UnlockBody_AnyType(c) ==
    /\ pc[c] = "U_body"
    /\ LET r == call[c].res
           lt == call[c].lt
           existing == lockedResources[c][r] IN
       IF existing = NoLock
       THEN /\ Return(c, "NotHeld")
            /\ UNCHANGED <<lockedResources, rlmReaders, rlmWriter>>
       ELSE /\ lockedResources' = [lockedResources EXCEPT ![c][r] = NoLock]
            /\ IF RlmUnlockFails(r, lt)
               THEN /\ Return(c, "RlmError")
                    /\ UNCHANGED <<rlmReaders, rlmWriter>>
               ELSE /\ rlmReaders' = RlmReadersAfterUnlock(rlmReaders, r, lt)
                    /\ rlmWriter' = RlmWriterAfterUnlock(rlmWriter, r, lt)
                    /\ Return(c, "ok")
    /\ UNCHANGED <<transactions, allocated, edges, regReaders, regWriter, call,
                   conflicts, scanTodo, relTodo>>
    /\ UNCHANGED <<rmVars, replayVars>>

\* Lines 125-144, under tx.mtx: the map entry is deleted before the resource
\* lock manager is asked to release.
UnlockBody(c) ==
    /\ pc[c] = "U_body"
    /\ LET r == call[c].res
           lt == call[c].lt
           existing == lockedResources[c][r] IN
       IF existing = NoLock
       THEN /\ Return(c, "NotHeld")
            /\ UNCHANGED <<lockedResources, rlmReaders, rlmWriter>>
       ELSE IF existing # lt
       THEN /\ Return(c, "Mismatch")
            /\ UNCHANGED <<lockedResources, rlmReaders, rlmWriter>>
       ELSE /\ lockedResources' = [lockedResources EXCEPT ![c][r] = NoLock]
            /\ IF RlmUnlockFails(r, lt)
               THEN /\ Return(c, "RlmError")
                    /\ UNCHANGED <<rlmReaders, rlmWriter>>
               ELSE /\ rlmReaders' = RlmReadersAfterUnlock(rlmReaders, r, lt)
                    /\ rlmWriter' = RlmWriterAfterUnlock(rlmWriter, r, lt)
                    /\ Return(c, "ok")
    /\ UNCHANGED <<transactions, allocated, edges, regReaders, regWriter, call, conflicts,
                   scanTodo, relTodo>>
    /\ UNCHANGED <<rmVars, replayVars>>

\* ----------------------------------------------------------------- Commit
\* Line 149: tm.mtx.Lock() is called.
CommitCall(c) ==
    /\ regWriter = 0
    /\ Start(c, "Commit", 0, NoLock, "C_wait")
    /\ regWriter' = c
    /\ UNCHANGED <<transactions, allocated, lockedResources, edges, rlmReaders, rlmWriter,
                   regReaders, conflicts, scanTodo, relTodo>>
    /\ UNCHANGED <<rmVars, replayVars>>

\* Lines 150-158: the write lock is held; look the transaction up.
CommitLookup(c) ==
    /\ pc[c] = "C_wait"
    /\ regReaders = 0
    /\ IF transactions[c] = NoTx
       THEN /\ Return(c, "NotFound")
            /\ regWriter' = 0
            /\ UNCHANGED relTodo
       ELSE /\ pc' = [pc EXCEPT ![c] = "C_loop"]
            /\ relTodo' = [relTodo EXCEPT ![c] =
                   {r \in Resources : lockedResources[c][r] # NoLock}]
            /\ UNCHANGED <<ret, regWriter>>
    /\ UNCHANGED <<transactions, allocated, lockedResources, edges, rlmReaders, rlmWriter,
                   regReaders, call, conflicts, scanTodo>>
    /\ UNCHANGED <<rmVars, replayVars>>

\* Lines 159-164: one iteration of the release loop.
CommitRelease(c, r) ==
    /\ pc[c] = "C_loop"
    /\ r \in relTodo[c]
    /\ LET lt == lockedResources[c][r] IN
       IF RlmUnlockFails(r, lt)
       THEN /\ Return(c, "RlmError")
            /\ regWriter' = 0
            /\ relTodo' = [relTodo EXCEPT ![c] = {}]
            /\ UNCHANGED <<rlmReaders, rlmWriter>>
       ELSE /\ rlmReaders' = RlmReadersAfterUnlock(rlmReaders, r, lt)
            /\ rlmWriter' = RlmWriterAfterUnlock(rlmWriter, r, lt)
            /\ relTodo' = [relTodo EXCEPT ![c] = @ \ {r}]
            /\ UNCHANGED <<pc, ret, regWriter>>
    /\ UNCHANGED <<transactions, allocated, lockedResources, edges, regReaders, call,
                   conflicts, scanTodo>>
    /\ UNCHANGED <<rmVars, replayVars>>

\* CommitDelete reached without the release loop of lines 159-164 having run.
CommitDelete_Early(c) ==
    /\ pc[c] = "C_loop"
    /\ transactions' = [transactions EXCEPT ![c] = NoTx]
    /\ regWriter' = 0
    /\ Return(c, "ok")
    /\ relTodo' = [relTodo EXCEPT ![c] = {}]
    /\ UNCHANGED <<allocated, lockedResources, edges, rlmReaders, rlmWriter,
                   regReaders, call, conflicts, scanTodo>>
    /\ UNCHANGED <<rmVars, replayVars>>

\* Lines 165-167: the entry is deleted and tm.mtx released.
CommitDelete(c) ==
    /\ pc[c] = "C_loop"
    /\ relTodo[c] = {}
    /\ transactions' = [transactions EXCEPT ![c] = NoTx]
    /\ regWriter' = 0
    /\ Return(c, "ok")
    /\ UNCHANGED <<allocated, lockedResources, edges, rlmReaders, rlmWriter, regReaders,
                   call, conflicts, scanTodo, relTodo>>
    /\ UNCHANGED <<rmVars, replayVars>>

\* ------------------------------------------------------------------- Next
Next ==
    \E c \in Clients :
        \/ BeginCall(c)
        \/ BeginBody(c)
        \/ \E r \in Resources, lt \in LockTypes : LockCall(c, r, lt)
        \/ LockLookup(c)
        \/ LockCheck(c)
        \/ \E x \in Clients : LockScan(c, x)
        \/ \E t \in TxIds : LockAddEdge(c, t)
        \/ LockDetect(c)
        \/ LockAcquire(c)
        \/ LockRecord(c)
        \/ \E r \in Resources, lt \in LockTypes : UnlockCall(c, r, lt)
        \/ UnlockLookup(c)
        \/ UnlockBody(c)
        \/ CommitCall(c)
        \/ CommitLookup(c)
        \/ \E r \in Resources : CommitRelease(c, r)
        \/ CommitDelete(c)

Spec == Init /\ [][Next]_vars

\* ------------------------------------- failures of the resource lock manager
\* ResourceLockManager.Lock and Unlock return an error value; here the calls
\* made by Lock and Commit may return one in any state.

\* Lines 94-98 with err != nil: line 96 releases tx.mtx, which the call released
\* at line 87 and has not taken again; unlocking an unlocked sync mutex is a
\* fatal runtime error that ends the process.
LockAcquireFails(c) ==
    /\ pc[c] = "L_acquire"
    /\ pc' = [x \in Clients |-> "fatal"]
    /\ UNCHANGED <<transactions, allocated, lockedResources, edges, rlmReaders,
                   rlmWriter, regReaders, regWriter, call, ret, conflicts, scanTodo,
                   relTodo>>
    /\ UNCHANGED <<rmVars, replayVars>>

\* Lines 160-163 with err != nil: Commit returns the error; the deferred
\* unlocks run, the registry entry and the map stay as they are.
CommitReleaseFails(c, r) ==
    /\ pc[c] = "C_loop"
    /\ r \in relTodo[c]
    /\ Return(c, "RlmError")
    /\ regWriter' = 0
    /\ relTodo' = [relTodo EXCEPT ![c] = {}]
    /\ UNCHANGED <<transactions, allocated, lockedResources, edges, rlmReaders,
                   rlmWriter, regReaders, call, conflicts, scanTodo>>
    /\ UNCHANGED <<rmVars, replayVars>>

\* The clients begin, lock and commit.
FaultCall(c) ==
    \/ BeginCall(c)
    \/ \E r \in Resources, lt \in LockTypes : LockCall(c, r, lt)
    \/ CommitCall(c)

FaultProgress(c) ==
    \/ BeginBody(c)
    \/ LockLookup(c)
    \/ LockCheck(c)
    \/ \E x \in Clients : LockScan(c, x)
    \/ \E t \in TxIds : LockAddEdge(c, t)
    \/ LockDetect(c)
    \/ LockAcquire(c)
    \/ LockRecord(c)
    \/ CommitLookup(c)
    \/ \E r \in Resources : CommitRelease(c, r)
    \/ CommitDelete(c)

NextFault ==
    \/ \E c \in Clients : FaultCall(c)
    \/ \E c \in Clients : FaultProgress(c)
    \/ \E c \in Clients : LockAcquireFails(c)
    \/ \E c \in Clients, r \in Resources : CommitReleaseFails(c, r)

\* Calls against a lock manager that may fail.
InitFault ==
    /\ InitTM(1..NumFaultClients)
    /\ InitRM(1..NumFaultClients)
    /\ InitReplay

SpecFault == InitFault /\ [][NextFault]_vars

\* ------------------------------------------------------- recovery manager
INSERT_ACTION == "insert"
UPDATE_ACTION == "update"
DELETE_ACTION == "delete"
Actions == {INSERT_ACTION, UPDATE_ACTION, DELETE_ACTION}

tableLog(tblType, tblName) == [type |-> "table", tblType |-> tblType, tblName |-> tblName]
editLog(id, tablename, action, key, oldval, newval) ==
    [type |-> "edit", id |-> id, tablename |-> tablename, action |-> action,
     key |-> key, oldval |-> oldval, newval |-> newval]
startLog(id) == [type |-> "start", id |-> id]
commitLog(id) == [type |-> "commit", id |-> id]
checkpointLog(ids) == [type |-> "checkpoint", ids |-> ids]

\* What a flushLog call can do: write and sync ("nil"), fail in WriteString
\* with nothing appended ("write"), or append and fail in Sync ("sync").
FlushOutcomes == {"nil", "write", "sync"}

\* flushLog, lines 59-66: the file after the call.
flushLog(file, log, outcome) == IF outcome = "write" THEN file ELSE Append(file, log)

\* The room the bounds leave for one more record.
Room(c) == Len(wal) < MaxLog /\ Len(txStack[c]) < MaxLog

\* Table, lines 69-81: the only method that returns flushLog's error.
Table(tblType, tblName, outcome) ==
    /\ Len(wal) < MaxLog
    /\ wal' = flushLog(wal, tableLog(tblType, tblName), outcome)
    /\ flushErr' = outcome
    /\ rmCall' = [op |-> "Table", id |-> 0]
    /\ rmRet' = IF outcome # "nil" THEN "IOError" ELSE "ok"
    /\ UNCHANGED <<txStack, snapshotLog>>
    /\ UNCHANGED <<tmVars, replayVars>>

\* Edit, lines 84-91: flushLog's error is dropped; the edit is pushed either way.
Edit(clientId, tablename, action, key, oldval, newval, outcome) ==
    /\ Room(clientId)
    /\ LET edit == editLog(clientId, tablename, action, key, oldval, newval) IN
       /\ wal' = flushLog(wal, edit, outcome)
       /\ txStack' = [txStack EXCEPT ![clientId] = Append(@, edit)]
    /\ flushErr' = outcome
    /\ rmCall' = [op |-> "Edit", id |-> clientId]
    /\ rmRet' = "ok"
    /\ UNCHANGED snapshotLog
    /\ UNCHANGED <<tmVars, replayVars>>

\* Start, lines 94-100.
RmStart(clientId, outcome) ==
    /\ Len(wal) < MaxLog
    /\ wal' = flushLog(wal, startLog(clientId), outcome)
    /\ flushErr' = outcome
    /\ rmCall' = [op |-> "Start", id |-> clientId]
    /\ rmRet' = "ok"
    /\ UNCHANGED <<txStack, snapshotLog>>
    /\ UNCHANGED <<tmVars, replayVars>>

\* Commit without the delete of line 106.
RmCommit_KeepStack(clientId, outcome) ==
    /\ Len(wal) < MaxLog
    /\ wal' = flushLog(wal, commitLog(clientId), outcome)
    /\ flushErr' = outcome
    /\ rmCall' = [op |-> "Commit", id |-> clientId]
    /\ rmRet' = "ok"
    /\ UNCHANGED <<txStack, snapshotLog>>
    /\ UNCHANGED <<tmVars, replayVars>>

\* Commit, lines 103-110: the stack is deleted before the record is written.
RmCommit(clientId, outcome) ==
    /\ Len(wal) < MaxLog
    /\ txStack' = [txStack EXCEPT ![clientId] = <<>>]
    /\ wal' = flushLog(wal, commitLog(clientId), outcome)
    /\ flushErr' = outcome
    /\ rmCall' = [op |-> "Commit", id |-> clientId]
    /\ rmRet' = "ok"
    /\ UNCHANGED snapshotLog
    /\ UNCHANGED <<tmVars, replayVars>>

\* Checkpoint, lines 115-131, under rm.mtx: the ids are the keys of rm.txStack;
\* flushLog's error is dropped and delta copies the folder, log file included.
Checkpoint(outcome) ==
    /\ Len(wal) < MaxLog
    /\ LET ids == {id \in DOMAIN txStack : txStack[id] # <<>>} IN
       wal' = flushLog(wal, checkpointLog(ids), outcome)
    /\ snapshotLog' = wal'
    /\ flushErr' = outcome
    /\ rmCall' = [op |-> "Checkpoint", id |-> 0]
    /\ rmRet' = "ok"
    /\ UNCHANGED txStack
    /\ UNCHANGED <<tmVars, replayVars>>

\* Rollback, lines 215-217: the body is panic("Not implemented"); nothing is
\* undone and the call does not return.
Rollback(clientId) ==
    /\ rmCall' = [op |-> "Rollback", id |-> clientId]
    /\ rmRet' = "panic"
    /\ UNCHANGED <<wal, txStack, flushErr, snapshotLog>>
    /\ UNCHANGED <<tmVars, replayVars>>

NextRM ==
    \E outcome \in FlushOutcomes :
        \/ Table("btree", "t", outcome)
        \/ \E c \in Clients, a \in Actions, k \in Keys, o \in Values, n \in Values :
               Edit(c, "t", a, k, o, n, outcome)
        \/ \E c \in Clients : RmStart(c, outcome)
        \/ \E c \in Clients : RmCommit(c, outcome)
        \/ Checkpoint(outcome)
        \/ \E c \in Clients : Rollback(c)

SpecRM == Init /\ [][NextRM]_vars

\* ------------------------------------------------------------------- redo
\* The storage engine's handlers as the recovery manager consumes them: insert
\* fails on a key that exists, update and delete fail on a key that is missing.
HandleInsertFails(t, key) == t[key] # Absent
HandleUpdateFails(t, key) == t[key] = Absent
HandleDeleteFails(t, key) == t[key] = Absent

\* redo with the fallbacks of lines 149-154 and 160-165 removed.
redoRows_NoFallback(t, log) ==
    IF log.action = INSERT_ACTION
    THEN IF HandleInsertFails(t, log.key) THEN t ELSE [t EXCEPT ![log.key] = log.newval]
    ELSE IF log.action = UPDATE_ACTION
    THEN IF HandleUpdateFails(t, log.key) THEN t ELSE [t EXCEPT ![log.key] = log.newval]
    ELSE IF HandleDeleteFails(t, log.key) THEN t ELSE [t EXCEPT ![log.key] = Absent]

\* redo of an editLog, lines 143-173: the table after the call.
redoRows(t, log) ==
    IF log.action = INSERT_ACTION
    THEN IF ~HandleInsertFails(t, log.key) THEN [t EXCEPT ![log.key] = log.newval]
         ELSE IF ~HandleUpdateFails(t, log.key) THEN [t EXCEPT ![log.key] = log.newval]
         ELSE t
    ELSE IF log.action = UPDATE_ACTION
    THEN IF ~HandleUpdateFails(t, log.key) THEN [t EXCEPT ![log.key] = log.newval]
         ELSE IF ~HandleInsertFails(t, log.key) THEN [t EXCEPT ![log.key] = log.newval]
         ELSE t
    ELSE IF HandleDeleteFails(t, log.key) THEN t ELSE [t EXCEPT ![log.key] = Absent]

\* redo of an editLog, lines 143-177: the error returned.
redoError(t, log) ==
    IF log.action = INSERT_ACTION
    THEN IF HandleInsertFails(t, log.key) /\ HandleUpdateFails(t, log.key)
         THEN "error" ELSE "nil"
    ELSE IF log.action = UPDATE_ACTION
    THEN IF HandleUpdateFails(t, log.key) /\ HandleInsertFails(t, log.key)
         THEN "error" ELSE "nil"
    ELSE IF HandleDeleteFails(t, log.key) THEN "error" ELSE "nil"

\* The edit logs given to redo.
RedoLogs ==
    {editLog(1, "t", a, k, o, n) : a \in Actions, k \in RedoKeys,
                                   o \in RedoValues, n \in RedoValues}

\* One call redo(log).
Redo(log) ==
    /\ rows' = redoRows(rows, log)
    /\ redoErr' = redoError(rows, log)
    /\ redone' = log
    /\ UNCHANGED <<logs, checkpointIndex>>
    /\ UNCHANGED <<tmVars, rmVars>>

\* Any table state, before any redo call.
InitRedo ==
    /\ InitTM(1..NumClients)
    /\ InitRM(1..NumClients)
    /\ rows \in [RedoKeys -> RedoValues \cup {Absent}]
    /\ redone = NoLog
    /\ redoErr = "nil"
    /\ logs = <<>>
    /\ checkpointIndex = -1

NextRedo == \E log \in RedoLogs : Redo(log)

SpecRedo == InitRedo /\ [][NextRedo]_vars

\* --------------------------------------------------------------- readLogs
\* The line the backward scanner returns first when the file ends in a newline.
EmptyLine == [type |-> "empty"]

\* The lines of the file as the backward scanner yields them, last first.
Lines(file) == IF file = <<>> THEN <<>> ELSE file \o <<EmptyLine>>

\* bytes.Contains(line, "start") and bytes.Contains(line, "checkpoint") on the
\* serialized record; table names hold neither word.
ContainsStart(line) == line.type = "start"
ContainsCheckpoint(line) == line.type = "checkpoint"

\* The loop of getRelevantStrings, lines 282-317, about to read line i of L
\* with the loop state given; at end of file line 286 returns position 0.
RECURSIVE scanBack(_, _, _, _, _, _)
scanBack(L, i, relevantStrings, checkpointPos, checkpointHit, txs) ==
    IF i = 0 THEN [strings |-> relevantStrings, checkpointPos |-> 0]
    ELSE LET line == L[i]
             strings1 == <<line>> \o relevantStrings
             txs1 == IF checkpointHit /\ ContainsStart(line) THEN txs \ {line.id}
                     ELSE txs
             hitNow == ~checkpointHit /\ ContainsCheckpoint(line)
             txs2 == IF hitNow THEN txs1 \cup line.ids ELSE txs1
             pos2 == IF hitNow THEN 0 ELSE checkpointPos + 1
         IN  IF (checkpointHit \/ hitNow) /\ txs2 = {}
             THEN [strings |-> strings1, checkpointPos |-> pos2]
             ELSE scanBack(L, i - 1, strings1, pos2, checkpointHit \/ hitNow, txs2)

\* getRelevantStrings, lines 269-319.
getRelevantStrings(file) ==
    scanBack(Lines(file), Len(Lines(file)), <<>>, 0, FALSE, {})

\* readLogs, lines 324-342: the last string is dropped, the rest is parsed.
readLogs(file) ==
    LET got == getRelevantStrings(file) IN
    [logs |-> IF Len(got.strings) > 0
              THEN SubSeq(got.strings, 1, Len(got.strings) - 1) ELSE <<>>,
     checkpointIndex |-> got.checkpointPos]

\* The records a log file is made of.
FileRecords ==
    {tableLog("btree", "t")}
        \cup {startLog(c) : c \in 1..NumClients}
        \cup {commitLog(c) : c \in 1..NumClients}
        \cup {editLog(c, "t", INSERT_ACTION, 1, 1, 1) : c \in 1..NumClients}
        \cup {checkpointLog(ids) : ids \in SUBSET (1..NumClients)}

Files == UNION {[1..n -> FileRecords] : n \in 0..MaxFile}

\* One call readLogs().
ReadLogs ==
    /\ logs' = readLogs(wal).logs
    /\ checkpointIndex' = readLogs(wal).checkpointIndex
    /\ UNCHANGED <<rows, redone, redoErr>>
    /\ UNCHANGED <<tmVars, rmVars>>

\* A recovery manager opened on any log file.
InitRead ==
    /\ InitTM(1..NumClients)
    /\ wal \in Files
    /\ txStack = [c \in 1..NumClients |-> <<>>]
    /\ flushErr = "nil"
    /\ rmCall = [op |-> "none", id |-> 0]
    /\ rmRet = "none"
    /\ snapshotLog = <<>>
    /\ InitReplay

SpecRead == InitRead /\ [][ReadLogs]_vars

\* ------------------------------------------------- a three-client scenario
\* Client 1 begins, takes WRITE on resource 1 and commits; client 2 begins and
\* requests READ on resource 1; client 3 has no transaction and calls Lock.
ScenarioClients == 1..3

ScenarioCall(c) ==
    \/ c \in {1, 2} /\ BeginCall(c)
    \/ c = 1 /\ LockCall(c, 1, W_LOCK)
    \/ c = 2 /\ LockCall(c, 1, R_LOCK)
    \/ c = 3 /\ \E lt \in LockTypes : LockCall(c, 1, lt)
    \/ c = 1 /\ CommitCall(c)

\* The steps of a call in flight: the goroutine runs whenever it is not blocked.
ScenarioProgress(c) ==
    \/ BeginBody(c)
    \/ LockLookup(c)
    \/ LockCheck(c)
    \/ \E x \in Clients : LockScan(c, x)
    \/ \E t \in TxIds : LockAddEdge(c, t)
    \/ LockDetect(c)
    \/ LockAcquire(c)
    \/ LockRecord(c)
    \/ CommitLookup(c)
    \/ \E r \in Resources : CommitRelease(c, r)
    \/ CommitDelete(c)

NextScenario == \E c \in ScenarioClients : ScenarioCall(c) \/ ScenarioProgress(c)

\* Every call in flight that can take a step eventually takes one.
InitScenario ==
    /\ InitTM(ScenarioClients)
    /\ InitRM(ScenarioClients)
    /\ InitReplay

SpecScenario ==
    /\ InitScenario
    /\ [][NextScenario]_vars
    /\ \A c \in ScenarioClients : WF_vars(ScenarioProgress(c))

\* ================================================================ claims
Registered(c) == transactions[c] # NoTx

\* c's Commit has already released r in the resource lock manager.
ReleasedInCommit(c, r) == pc[c] = "C_loop" /\ r \notin relTodo[c]

\* c's transaction has lock type lt on r recorded and has not released it.
Holds(c, r, lt) ==
    Registered(c) /\ lockedResources[c][r] = lt /\ ~ReleasedInCommit(c, r)

\* The resource lock manager has granted r to c's Lock call, which has not yet
\* recorded it (between line 94 and line 101).
Granted(c, r) == pc[c] = "L_record" /\ call[c].res = r

\* C1 as stated: in every reachable state, a registered transaction that has
\* WRITE on r recorded in its held-resource map excludes every record of r in
\* the map of any other registered transaction.
C1_RecordedWriteExcludes ==
    \A a \in Clients, b \in Clients, r \in Resources :
        (a # b /\ Registered(a) /\ Registered(b) /\ lockedResources[a][r] = W_LOCK)
            => lockedResources[b][r] = NoLock

\* C1 amended: a transaction that has WRITE on r recorded and has not released
\* r (its Commit, if in progress, has not yet unlocked r) excludes every other
\* transaction: none has r recorded and unreleased, and no Lock call of another
\* transaction has been granted r.
C1_WriteExcludes ==
    \A a \in Clients, b \in Clients, r \in Resources :
        (a # b /\ Holds(a, r, W_LOCK))
            => /\ ~Holds(b, r, R_LOCK)
               /\ ~Holds(b, r, W_LOCK)
               /\ ~Granted(b, r)

\* A writer holds r while the Lock call of another transaction waits for r in
\* the resource lock manager.
C1_Witness ==
    \E a \in Clients, b \in Clients, r \in Resources :
        /\ a # b
        /\ Holds(a, r, W_LOCK)
        /\ pc[b] = "L_acquire"
        /\ call[b].res = r

\* A blocked in the resource lock manager on a resource that b's transaction
\* holds in a mode conflicting with a's request.
WaitsOn(a, b) ==
    /\ pc[a] = "L_acquire"
    /\ Registered(b)
    /\ Conflicts(lockedResources[b][call[a].res], call[a].lt)

\* C2: a holds r1 and waits in Lock for r2, which b holds; b's request for r1
\* has found a's conflicting lock (edge b -> a). Then the cycle check of b's
\* call returns Deadlock, and the call changes no held-resource map and no
\* grant of the resource lock manager.
C2_SecondRequestRejected ==
    [][\A a \in Clients, b \in Clients :
          ( /\ a # b
            /\ WaitsOn(a, b)
            /\ Registered(a)
            /\ pc[b] \in {"L_add", "L_added"}
            /\ Conflicts(lockedResources[a][call[b].res], call[b].lt)
            /\ <<transactions[b], transactions[a]>> \in edges
            /\ LockDetect(b) )
          => /\ ret'[b] = "Deadlock"
             /\ UNCHANGED <<lockedResources, rlmReaders, rlmWriter>>]_vars

\* C3: no set of two or more transactions is blocked in the resource lock
\* manager with each member waiting for a resource another member holds.
C3_NoCircularWait ==
    ~\E S \in SUBSET Clients :
        /\ Cardinality(S) >= 2
        /\ \A a \in S : \E b \in S \ {a} : WaitsOn(a, b)

\* b holds r with type lt: recorded and unreleased, or granted and not yet recorded.
HasLock(b, r, lt) == Holds(b, r, lt) \/ (Granted(b, r) /\ call[b].lt = lt)

C5_HeldRequestNoOp ==
    [][\A c \in Clients :
          ( /\ pc[c] \in {"L_rlock", "L_check"}
            /\ Registered(c)
            /\ lockedResources[c][call[c].res] # NoLock
            /\ pc'[c] # pc[c] )
          => /\ UNCHANGED <<transactions, lockedResources, edges, rlmReaders, rlmWriter>>
             /\ pc[c] = "L_check"
                  => /\ pc'[c] = "idle"
                     /\ LET held == lockedResources[c][call[c].res]
                            t == call[c].lt IN
                        /\ (held = R_LOCK /\ t = R_LOCK) => ret'[c] = "ok"
                        /\ (held = W_LOCK /\ t = W_LOCK) => ret'[c] = "ok"
                        /\ (held = W_LOCK /\ t = R_LOCK) => ret'[c] = "ok"
                        /\ (held = R_LOCK /\ t = W_LOCK) => ret'[c] = "UpgradeDenied"]_vars

\* A request for WRITE on a resource held with READ has been denied.
C5_Witness ==
    \E c \in Clients :
        /\ pc[c] = "idle" /\ call[c].op = "Lock" /\ ret[c] = "UpgradeDenied"
        /\ Registered(c)
        /\ lockedResources[c][call[c].res] = R_LOCK
        /\ call[c].lt = W_LOCK

\* C6: no two clients share a transaction; Begin(c) returns AlreadyExists and
\* changes nothing when c has an entry, otherwise it registers a new transaction
\* with an empty held-resource map; a successful Commit(c) removes c's entry;
\* Lock, Unlock and Commit of a client with no entry return NotFound and change
\* nothing.
C6_RegistryStateMachine ==
    [][\A c \in Clients :
          /\ \A b \in Clients \ {c} :
                 Registered(c) => transactions[b] # transactions[c]
          /\ (pc[c] = "B_wait" /\ pc'[c] # pc[c])
             => IF Registered(c)
                THEN /\ ret'[c] = "AlreadyExists"
                     /\ UNCHANGED <<transactions, lockedResources, edges,
                                    rlmReaders, rlmWriter>>
                ELSE /\ ret'[c] = "ok"
                     /\ Registered(c)'
                     /\ \A b \in Clients \ {c} :
                            /\ transactions'[b] = transactions[b]
                            /\ lockedResources'[b] = lockedResources[b]
                     /\ \A r \in Resources : lockedResources'[c][r] = NoLock
                     /\ UNCHANGED <<edges, rlmReaders, rlmWriter>>
          /\ (call[c].op = "Commit" /\ pc[c] # "idle" /\ pc'[c] = "idle" /\ ret'[c] = "ok")
             => ~Registered(c)'
          /\ (pc[c] \in {"L_rlock", "U_rlock", "C_wait"} /\ ~Registered(c)
                 /\ pc'[c] # pc[c])
             => /\ pc'[c] = "idle"
                /\ ret'[c] = "NotFound"
                /\ UNCHANGED <<transactions, lockedResources, edges,
                               rlmReaders, rlmWriter>>]_vars

\* Begin was refused for a client whose transaction holds a lock.
C6_Witness ==
    \E c \in Clients, r \in Resources :
        /\ pc[c] = "idle" /\ call[c].op = "Begin" /\ ret[c] = "AlreadyExists"
        /\ Registered(c)
        /\ lockedResources[c][r] # NoLock

\* The resource lock manager released type lt of r in this step.
RlmReleased(r, lt) ==
    IF lt = W_LOCK
    THEN rlmWriter[r] /\ ~rlmWriter'[r] /\ rlmReaders' = rlmReaders
    ELSE /\ rlmReaders[r] > 0
         /\ rlmReaders' = [rlmReaders EXCEPT ![r] = @ - 1]
         /\ rlmWriter' = rlmWriter

C8_WaitingOnCommitter(a, b, r, t) ==
    /\ a # b
    /\ pc[b] = "L_acquire"
    /\ call[b] = [op |-> "Lock", res |-> r, lt |-> t]
    /\ pc[a] \in {"C_wait", "C_loop"}
    /\ Registered(a)
    /\ Conflicts(lockedResources[a][r], t)
    /\ ~ReleasedInCommit(a, r)
    /\ \A x \in Clients \ {a, b} :
           ~HasLock(x, r, W_LOCK) /\ (t = W_LOCK => ~HasLock(x, r, R_LOCK))

\* b's Lock(r, t) has returned success with r recorded.
C8_Served(b, r, t) ==
    /\ pc[b] = "idle"
    /\ call[b] = [op |-> "Lock", res |-> r, lt |-> t]
    /\ ret[b] = "ok"
    /\ lockedResources[b][r] = t

\* C8: whenever b's Lock waits for a resource held by a, and a has called
\* Commit, b's Lock eventually returns success with the resource recorded.
C8_WaiterServedAfterCommit ==
    \A a \in ScenarioClients, b \in ScenarioClients :
        \A r \in Resources, t \in LockTypes :
            C8_WaitingOnCommitter(a, b, r, t) ~> C8_Served(b, r, t)

\* The index of c's most recent CommitLog in the log (0: none).
LastCommit(c) ==
    LET at == {i \in 1..Len(wal) : wal[i] = commitLog(c)} IN
    IF at = {} THEN 0 ELSE CHOOSE i \in at : \A j \in at : j <= i

IsEditOf(c, rec) == rec.type = "edit" /\ rec.id = c

\* c's EditLog records after its most recent CommitLog, in log order.
RECURSIVE EditsFrom(_, _)
EditsFrom(c, i) ==
    IF i > Len(wal) THEN <<>>
    ELSE IF IsEditOf(c, wal[i]) THEN <<wal[i]>> \o EditsFrom(c, i + 1)
    ELSE EditsFrom(c, i + 1)

StackMatchesWal == \A c \in Clients : txStack[c] = EditsFrom(c, LastCommit(c) + 1)

C10_FlushErrorReturned == flushErr # "nil" => rmRet = "IOError"

\* The clients with an uncommitted edit in the log: an EditLog after their
\* last CommitLog.
UncommittedInWal == {c \in Clients : EditsFrom(c, LastCommit(c) + 1) # <<>>}

\* C11: every Checkpoint appends one CheckpointLog whose ids are the clients
\* with a nonempty undo stack, which are the clients with an uncommitted edit in
\* the log, and the snapshot taken by the call holds the log up to and including
\* that record and nothing after it.
C11_CheckpointRecord ==
    [][(\E outcome \in FlushOutcomes : Checkpoint(outcome))
          => /\ wal' = Append(wal, checkpointLog({c \in Clients : txStack[c] # <<>>}))
             /\ wal'[Len(wal')].ids = UncommittedInWal
             /\ snapshotLog' = wal']_vars

\* C12 as stated: a redo of e that follows a redo of e that returned no error
\* returns no error and leaves the table unchanged, for INSERT, UPDATE and
\* DELETE.
C12_RedoIdempotent ==
    [][\A log \in RedoLogs :
          (Redo(log) /\ redone = log /\ redoErr = "nil")
              => (redoErr' = "nil" /\ rows' = rows)]_vars

\* C12 amended: a redo of an INSERT or UPDATE returns no error and leaves the
\* key mapped to the new value and every other key as it was, whether or not the
\* key was present, so a second replay changes nothing; a redo of a DELETE
\* removes a present key without error, and on a missing key (a second replay
\* included) returns the storage error and leaves the table unchanged.
C12_RedoInsertUpdateIdempotent ==
    [][\A log \in RedoLogs :
          Redo(log)
              => /\ \A k \in RedoKeys : k # log.key => rows'[k] = rows[k]
                 /\ log.action \in {INSERT_ACTION, UPDATE_ACTION}
                      => /\ redoErr' = "nil"
                         /\ rows'[log.key] = log.newval
                         /\ (rows[log.key] = log.newval => rows' = rows)
                 /\ log.action = DELETE_ACTION
                      => /\ rows'[log.key] = Absent
                         /\ redoErr' = (IF rows[log.key] = Absent THEN "error" ELSE "nil")
                         /\ (redone = log /\ redoErr = "nil"
                               => (redoErr' = "error" /\ rows' = rows))]_vars

\* An INSERT was replayed into a table that already had the key with another
\* value: the fallback update ran.
C12_Witness ==
    /\ redone \in RedoLogs
    /\ redone.action = INSERT_ACTION
    /\ redoErr = "nil"
    /\ rows[redone.key] = redone.newval
    /\ \E k \in RedoKeys : k # redone.key /\ rows[k] # Absent /\ rows[k] # redone.newval

\* C13: a Rollback call returns with the client's undo stack empty, every
\* entry of the stack having been undone.
C13_RollbackEmptiesStack ==
    rmCall.op = "Rollback" => (rmRet = "ok" /\ txStack[rmCall.id] = <<>>)

\* c's Lock call returns success in this step.
LockSucceeds(c) == call[c].op = "Lock" /\ ret[c] = "none" /\ ret'[c] = "ok"

\* C14: when a Lock call returns success, the no-op success for a resource
\* already held included, the waits-for graph has no cycle.
C14_NoCycleAtSuccess ==
    [][\A c \in Clients : LockSucceeds(c) => ~DetectCycle(edges')]_vars

\* C15: a Lock call returns Deadlock only if its own request added an edge and
\* its transaction is on a cycle of the graph; a request that found no
\* conflicting holder never returns Deadlock.
C15_DeadlockOnlyOnOwnCycle ==
    [][\A c \in Clients :
          (LockDetect(c) /\ ret'[c] = "Deadlock")
              => /\ pc[c] = "L_added"
                 /\ <<transactions[c], transactions[c]>> \in Closure(edges)]_vars

\* C16: when a release fails in Commit's loop, Commit returns that error, the
\* transaction stays registered, and its held-resource map lists only
\* resources the loop has not released.
C16_PartialCommitTracked ==
    [][\A c \in Clients :
          (pc[c] = "C_loop" /\ ret'[c] = "RlmError")
              => /\ Registered(c)'
                 /\ \A r \in Resources :
                        lockedResources'[c][r] # NoLock => r \in relTodo[c]]_vars

\* C17: when ResourceLockManager.Lock returns an error, the Lock call returns
\* that error, records nothing, and releases no mutex it does not hold.
C17_LockErrorReturned ==
    [][\A c \in Clients :
          LockAcquireFails(c)
              => /\ pc'[c] = "idle"
                 /\ ret'[c] = "RlmError"
                 /\ lockedResources' = lockedResources]_vars

\* a's Lock call is inside the range over tm.transactions of line 173: it has
\* visited an entry and has more to visit.
IteratesRegistry(a) == pc[a] = "L_scan" /\ scanTodo[a] # Clients

\* b's Begin inserts a registry entry, or b's Commit deletes one, in this step.
WritesRegistry(b) ==
    \/ BeginBody(b) /\ transactions'[b] # transactions[b]
    \/ CommitDelete(b)

\* C18: no Begin inserts and no Commit deletes a registry entry while the Lock
\* call of another client reads or iterates the registry.
C18_RegistryAccessLocked ==
    [][\A a \in Clients, b \in Clients :
          (a # b /\ WritesRegistry(b)) => ~IteratesRegistry(a)]_vars

\* a holds tm.mtx for reading (line 69 or 117) and waits for the read lock of
\* GetTransaction, while b waits for the write lock (line 48 or 149): the
\* pending writer blocks a's second read lock and a's first read lock blocks
\* the writer.
RegistryDeadlock(a, b) ==
    /\ a # b
    /\ pc[a] \in {"L_rlock", "U_rlock"}
    /\ pc[b] \in {"B_wait", "C_wait"}
    /\ regWriter = b

\* C19: no reachable state has a Lock or Unlock call and a Begin or Commit call
\* blocked on the registry lock by each other.
C19_LookupCompletes ==
    \A a \in Clients, b \in Clients : ~RegistryDeadlock(a, b)

\* The positions of the CheckpointLog records of the file.
CheckpointsOf(file) == {i \in 1..Len(file) : file[i].type = "checkpoint"}

LastCheckpoint(file) == CHOOSE i \in CheckpointsOf(file) : \A j \in CheckpointsOf(file) : j <= i

\* The ids with a StartLog at positions from..to of the file.
StartedIn(file, from, to) == {file[j].id : j \in {k \in from..to : file[k].type = "start"}}

\* The scan boundary: the nearest position at or before the last checkpoint from
\* which every id of the checkpoint has a StartLog before the checkpoint; the
\* start of the file if there is none.
Boundary(file) ==
    LET cp == LastCheckpoint(file)
        ok == {b \in 1..cp : file[cp].ids \subseteq StartedIn(file, b, cp - 1)}
    IN  IF ok = {} THEN 1 ELSE CHOOSE b \in ok : \A x \in ok : x <= b

\* C20: readLogs returns the records from the scan boundary to the end of the
\* file in file order, and a checkpoint index that is the position in them of
\* the most recent CheckpointLog (counted from 0), or their number when the
\* file has no CheckpointLog.
C20_ReadLogsIndex ==
    checkpointIndex # -1
        => IF CheckpointsOf(wal) = {}
           THEN logs = wal /\ checkpointIndex = Len(logs)
           ELSE /\ logs = SubSeq(wal, Boundary(wal), Len(wal))
                /\ checkpointIndex = LastCheckpoint(wal) - Boundary(wal)

====
